---- MODULE Spec2Model ----
(***************************************************************************)
(* Model of the ID photo / signature maker (Prem324/Imager).               *)
(*                                                                         *)
(* Three versions of the App component are modelled side by side:          *)
(*   "app"  src/src/App.js                                                 *)
(*   "p0"   src/unnamed/part_000                                           *)
(*   "p1"   src/unnamed/part_001  (EXIF-injecting version)                 *)
(*                                                                         *)
(* Qualities are counted in hundredths (0.9 is 90), sizes in bytes and     *)
(* lengths in tenths of a centimetre (3.5 cm is 35).  The floating-point   *)
(* sums of the source differ from these integers by rounding errors below  *)
(* 1e-15: the clamps and the tests > 0.1 and < 0.99 decide alike on both,  *)
(* and where quality === 1 of part_001 misses by such an error the loop    *)
(* test quality < 0.99 ends the loop all the same.                         *)
(***************************************************************************)
EXTENDS Integers, Sequences, FiniteSets, TLC

VARIABLES
    variant,            \* which version of the component is running
    mode,               \* useState("image")
    imageSrc,           \* useState(null)
    signatureSrc,       \* useState(null)
    resizedImage,       \* useState(null)
    resizedSignature,   \* useState(null)
    imageError,         \* useState("")
    signatureError,     \* useState("")
    loading,            \* useState(false)
    showCropper,        \* useState(false)
    tempImage,          \* useState(null)
    croppedAreaPixels,  \* useState(null)
    cropRuns,           \* calls of handleCropConfirm awaiting their image
    run,                \* the call of resizeAndCompress and its locals
    saved               \* the file the step handed to saveAs, if any

vars == <<variant, mode, imageSrc, signatureSrc, resizedImage, resizedSignature,
          imageError, signatureError, loading, showCropper, tempImage,
          croppedAreaPixels, cropRuns, run, saved>>

uiVars == <<mode, imageSrc, signatureSrc, showCropper, tempImage,
            croppedAreaPixels, cropRuns>>

(***************************************************************************)
(* Bounds of the model                                                     *)
(***************************************************************************)
MaxCropRuns == 1

(***************************************************************************)
(* Program constants                                                       *)
(***************************************************************************)
KB == 1024
DPI_PHOTO == 100
DPI_SIGNATURE == 95
CM_TO_INCH_E6 == 393701
CM_TO_PX_E2 == 11811
P0_MIN_SIZE == 10 * 1024
P1_MIN_SIZE == 20 * 1024
\* Bytes of the APP1 segment piexif.insert adds for the three resolution tags:
\* marker 2 + length 2 + "Exif\0\0" 6 + TIFF header 8 + IFD 42 + 2 rationals 16
ExifBytes == 76

Variants == {"app", "p0", "p1"}
Modes == {"image", "signature"}

IMAGE_DIMENSIONS(v) ==
    [width |-> 35, height |-> 45,
     minSize |-> IF v = "app" THEN 20 * KB ELSE 0,
     maxSize |-> 50 * KB, type |-> "photo"]

SIGNATURE_DIMENSIONS(v) ==
    [width |-> 35, height |-> 15, minSize |-> 0,
     maxSize |-> 20 * KB, type |-> "signature"]

\* Math.round(n / d) = floor(n / d + 1/2), for an even d > 0
RoundDiv(n, d) == (n + d \div 2) \div d

cmToPx(v, cm, isPhoto) ==
    IF v = "app"
    THEN RoundDiv(cm * (IF isPhoto THEN DPI_PHOTO ELSE DPI_SIGNATURE) * CM_TO_INCH_E6,
                  10000000)
    ELSE RoundDiv(cm * CM_TO_PX_E2, 1000)

\* Math.round(size / 1024), as the messages print it
RoundKB(size) == RoundDiv(size, KB)

(***************************************************************************)
(* Values                                                                  *)
(***************************************************************************)
NoImage == [present |-> FALSE, decodable |-> FALSE, profile |-> "none"]
Img(ok, p) == [present |-> TRUE, decodable |-> ok, profile |-> p]

NoResult == [present |-> FALSE, size |-> 0]
Result(n) == [present |-> TRUE, size |-> n]

NoError == [kind |-> "none", sizeKB |-> 0, minKB |-> 0, maxKB |-> 0, hasMin |-> FALSE, hasMax |-> FALSE]
FailedError == [kind |-> "failed", sizeKB |-> 0, minKB |-> 0, maxKB |-> 0, hasMin |-> FALSE, hasMax |-> FALSE]
CropError == [kind |-> "crop", sizeKB |-> 0, minKB |-> 0, maxKB |-> 0, hasMin |-> FALSE, hasMax |-> FALSE]

NoBlob == 0 - 1

NoFile == [name |-> "", size |-> 0]

\* The step calls saveAs for no file
NoSave == saved' = NoFile

\* The byte sizes the JPEG encoder may return for a source, whatever the
\* quality: the encoder is an external collaborator and its size is not a
\* function the component controls.
Sizes == {10239, 10240, 20479, 20480, 51200, 51201}

EncodedSizes(src) ==
    CASE src.profile = "any" -> Sizes
      [] src.profile = "big" -> {51201}
      [] src.profile = "mid" -> {20480}
      [] OTHER -> {}

\* Sources whose encoder is a function of the quality: "over" is above every
\* maxSize and "under" below every lower bound whatever the quality, "steep"
\* falls under 50 KB below quality 0.80, "bump" is not monotone.
FunctionProfiles == {"over", "under", "steep", "bump"}

\* canvas.toBlob(res, "image/jpeg", quality): the sizes the blob may have
Encode(src, q) ==
    CASE src.profile = "over" -> {51201}
      [] src.profile = "under" -> {10239}
      [] src.profile = "steep" -> {IF q >= 80 THEN 51201 ELSE 20480}
      [] src.profile = "bump" ->
            {IF q >= 90 THEN 51201 ELSE IF q >= 80 THEN 10239 ELSE 20480}
      [] OTHER -> EncodedSizes(src)


(***************************************************************************)
(* resizeAndCompress: the parameters of the quality search                 *)
(***************************************************************************)
QualityStart(v) == IF v = "p1" THEN 92 ELSE 90
QualityStep(v) == IF v = "p1" THEN 2 ELSE 5
QualityFloor(v) == IF v = "app" THEN 50 ELSE 10
QualityCeiling(v) == 100
MaxTries(v) == IF v = "app" THEN 10 ELSE 20

\* The lower byte bound each version judges a blob against:
\* dimensions.minSize (absent is falsy) / 10 * 1024 / let minSize = 20 * 1024
LowerBound(v, dims) ==
    CASE v = "app" -> dims.minSize
      [] v = "p0" -> P0_MIN_SIZE
      [] OTHER -> P1_MIN_SIZE

\* Mutant: the final if forgets the upper bound
OutOfWindowNoMax(v, dims, size) == size < LowerBound(v, dims)

\* The test of the final if: true when the size misses the window
OutOfWindow(v, dims, size) ==
    CASE v = "app" -> \/ size > dims.maxSize
                      \/ (dims.minSize # 0 /\ size < dims.minSize)
      [] v = "p0" -> size > dims.maxSize \/ size < P0_MIN_SIZE
      [] OTHER -> size < P1_MIN_SIZE \/ size > dims.maxSize

\* Mutant: Math.min(1, quality), the floor forgotten
ClampCeilingOnly(v, q) == IF q > 100 THEN 100 ELSE q

\* Math.min(1, Math.max(floor, quality))
Clamp(v, q) ==
    LET lo == IF q < QualityFloor(v) THEN QualityFloor(v) ELSE q
    IN IF lo > QualityCeiling(v) THEN QualityCeiling(v) ELSE lo

\* Mutant: the two branches of the conditional swapped
StepQualityFlipped(v, dims, q, size) ==
    IF size < LowerBound(v, dims) THEN q - QualityStep(v) ELSE q + QualityStep(v)

\* quality += blob.size < lower ? step : -step  (App.js, part_000)
StepQuality(v, dims, q, size) ==
    IF size < LowerBound(v, dims) THEN q + QualityStep(v) ELSE q - QualityStep(v)

\* Mutant: the loop without its try budget
LoopCondNoBudget(v, dims, size, tries) == OutOfWindow(v, dims, size)

\* Mutant: the loop gives up one try early
LoopCondOneShort(v, dims, size, tries) ==
    OutOfWindow(v, dims, size) /\ tries < MaxTries(v) - 1

\* The condition of the while loop of App.js and part_000
LoopCond(v, dims, size, tries) ==
    OutOfWindow(v, dims, size) /\ tries < MaxTries(v)

\* Mutant: the decreasing loop gives up one try early
DecCondOneShort(dims, size, q, tries) ==
    size > dims.maxSize /\ q > 10 /\ tries < MaxTries("p1") - 1

\* Mutant: the increasing loop stops below the ceiling
IncCondBelowCeiling(dims, size, q, tries) ==
    size < P1_MIN_SIZE /\ q < 95 /\ tries < MaxTries("p1")

\* The two loops of part_001
DecCond(dims, size, q, tries) ==
    size > dims.maxSize /\ q > 10 /\ tries < MaxTries("p1")

IncCond(dims, size, q, tries) ==
    size < P1_MIN_SIZE /\ q < 99 /\ tries < MaxTries("p1")

\* if (quality > 1) quality = 1
CapAtOne(q) == IF q > 100 THEN 100 ELSE q

\* The canvas the image is drawn on first: App.js draws at twice the target
\* size (scaleFactor = 2), the other versions at the target size.
DrawCanvas(v, dims) ==
    LET k == IF v = "app" THEN 2 ELSE 1
    IN [w |-> k * cmToPx(v, dims.width, dims.type = "photo"),
        h |-> k * cmToPx(v, dims.height, dims.type = "photo")]

\* Mutant: toBlob is called on the canvas the image was drawn on
EncodedCanvasIsDrawCanvas(v, dims) == DrawCanvas(v, dims)

\* The canvas toBlob is called on: finalCanvas in App.js, the one canvas of
\* the other versions
EncodedCanvas(v, dims) ==
    [w |-> cmToPx(v, dims.width, dims.type = "photo"),
     h |-> cmToPx(v, dims.height, dims.type = "photo")]

\* The canvas the blob is made from has pixels (toBlob yields null otherwise)
HasPixels(v, dims) ==
    /\ cmToPx(v, dims.width, dims.type = "photo") > 0
    /\ cmToPx(v, dims.height, dims.type = "photo") > 0

\* The message handed to setError when the size misses the window
SizeError(v, dims, size) ==
    CASE v = "app" ->
            [kind |-> "size", sizeKB |-> RoundKB(size),
             hasMin |-> dims.minSize # 0,
             minKB |-> IF dims.minSize # 0 THEN RoundKB(dims.minSize) ELSE 0,
             hasMax |-> TRUE, maxKB |-> RoundKB(dims.maxSize)]
      [] v = "p0" ->
            [kind |-> "size", sizeKB |-> RoundKB(size),
             hasMin |-> FALSE, minKB |-> 0, hasMax |-> FALSE, maxKB |-> 0]
      [] OTHER ->
            [kind |-> "size", sizeKB |-> RoundKB(size),
             hasMin |-> TRUE, minKB |-> 20, hasMax |-> TRUE, maxKB |-> 50]

\* Mutant: the failure branch without its setResized(null)
ResizedKeptOnViolation(old) == old

\* setResized(null) of the failure branch, given the value held before
ResizedOnViolation(old) == NoResult

\* The blob that is judged and stored: part_001 inserts the EXIF segment first
FinalSize(v, size) == IF v = "p1" THEN size + ExifBytes ELSE size

(***************************************************************************)
(* State of one call of resizeAndCompress                                  *)
(***************************************************************************)
\* What is remembered of an earlier call on the same source and preset
NoSummary == [outcome |-> "none", final |-> NoBlob, trail |-> <<>>]
Summary(r) == [outcome |-> r.outcome, final |-> r.final, trail |-> r.trail]

\* The locals of the call, and as history: canvas (the size of the canvas
\* handed to toBlob), trail (the qualities handed to toBlob) and prev (how
\* the call before this one ended); trail and prev are kept for sources
\* whose encoder is a function of the quality.
IdleRun ==
    [pc |-> "idle", target |-> "image", dims |-> IMAGE_DIMENSIONS("app"),
     src |-> NoImage, quality |-> 0, tries |-> 0, blob |-> NoBlob,
     encodes |-> 0, phase |-> "dec", clamped |-> FALSE, noProgress |-> FALSE,
     final |-> NoBlob, outcome |-> "none",
     canvas |-> [w |-> 0, h |-> 0], trail |-> <<>>, prev |-> NoSummary]

\* The call has started and has not ended
InFlight(r) == r.pc \in {"load", "hung", "encode", "read"}

Logged(src) == src.profile \in FunctionProfiles

Src(t) == IF t = "image" THEN imageSrc ELSE signatureSrc
Resized(t) == IF t = "image" THEN resizedImage ELSE resizedSignature
Error(t) == IF t = "image" THEN imageError ELSE signatureError
Dimensions(v, t) == IF t = "image" THEN IMAGE_DIMENSIONS(v) ELSE SIGNATURE_DIMENSIONS(v)

\* setError(err); setResized(res) on the setters the call was given
Store(t, err, res) ==
    /\ imageError' = IF t = "image" THEN err ELSE imageError
    /\ signatureError' = IF t = "signature" THEN err ELSE signatureError
    /\ resizedImage' = IF t = "image" THEN res ELSE resizedImage
    /\ resizedSignature' = IF t = "signature" THEN res ELSE resizedSignature

\* The call before this one, when it ended on the same source and preset
Previous(src, t) ==
    IF Logged(src) /\ run.pc = "done" /\ run.src = src /\ run.target = t
    THEN Summary(run) ELSE NoSummary

\* Mutant: quality, tries and blob live outside the function and keep their
\* values from call to call
ResizeAndCompressSharedLocals(src, dims, t) ==
    /\ loading' = TRUE
    /\ Store(t, NoError, Resized(t))
    /\ run' = [run EXCEPT !.pc = "load", !.target = t, !.dims = dims,
                          !.src = src, !.trail = <<>>, !.outcome = "none",
                          !.final = NoBlob, !.prev = Previous(src, t)]

\* The synchronous head of resizeAndCompress: setLoading(true); setError("");
\* the image is created and the call waits for its load event.
ResizeAndCompress(src, dims, t) ==
    /\ loading' = TRUE
    /\ Store(t, NoError, Resized(t))
    /\ run' = [IdleRun EXCEPT !.pc = "load", !.target = t, !.dims = dims,
                              !.src = src, !.prev = Previous(src, t)]

\* The if / else that ends the try block, then setLoading(false)
Verdict(r, size) ==
    /\ IF OutOfWindow(variant, r.dims, size)
       THEN /\ Store(r.target, SizeError(variant, r.dims, size),
                     ResizedOnViolation(Resized(r.target)))
            /\ run' = [r EXCEPT !.pc = "done", !.final = size,
                                !.outcome = "violation"]
       ELSE /\ Store(r.target, Error(r.target), Result(size))
            /\ run' = [r EXCEPT !.pc = "done", !.final = size,
                                !.outcome = "success"]
    /\ loading' = FALSE

\* The catch block, then setLoading(false)
Catch(r) ==
    /\ Store(r.target, FailedError, NoResult)
    /\ run' = [r EXCEPT !.pc = "done", !.outcome = "failed"]
    /\ loading' = FALSE


(***************************************************************************)
(* Steps of resizeAndCompress: one action per continuation of an await     *)
(***************************************************************************)
\* img.onload fires: the canvases are drawn, quality = start, and the first
\* toBlob is requested.  (App.js draws its 2x canvas onto the final canvas:
\* drawImage throws for a source canvas without pixels.)
ImgOnload ==
    /\ run.pc = "load"
    /\ run.src.decodable
    /\ IF variant = "app" /\ ~HasPixels(variant, run.dims)
       THEN Catch(run)
       ELSE /\ run' = [run EXCEPT !.pc = "encode",
                                  !.quality = QualityStart(variant),
                                  !.encodes = 1,
                                  !.canvas = EncodedCanvas(variant, run.dims),
                                  !.trail = IF Logged(run.src)
                                            THEN <<QualityStart(variant)>>
                                            ELSE <<>>]
            /\ UNCHANGED <<resizedImage, resizedSignature, imageError,
                           signatureError, loading>>
    /\ NoSave
    /\ UNCHANGED <<variant, uiVars>>

\* The image fires "error": no handler was installed, so the awaited promise
\* never settles and the call never resumes.
ImgOnerror ==
    /\ run.pc = "load"
    /\ ~run.src.decodable
    /\ run' = [run EXCEPT !.pc = "hung"]
    /\ NoSave
    /\ UNCHANGED <<variant, uiVars, resizedImage, resizedSignature, imageError,
                   signatureError, loading>>

\* One more toBlob at quality q
Reencode(r, q, raw, ph) ==
    /\ run' = [r EXCEPT !.quality = q, !.clamped = (q # raw), !.phase = ph,
                        !.encodes = r.encodes + 1,
                        !.trail = IF Logged(r.src) THEN Append(r.trail, q)
                                                   ELSE r.trail]
    /\ UNCHANGED <<resizedImage, resizedSignature, imageError, signatureError,
                   loading>>

\* part_001 leaves its loops and reads the blob back as a data URL
ReadBack(r) ==
    /\ run' = [r EXCEPT !.pc = "read"]
    /\ UNCHANGED <<resizedImage, resizedSignature, imageError, signatureError,
                   loading>>

\* App.js and part_000: the while loop, then the verdict
SearchStep(r, s, t) ==
    IF LoopCond(variant, r.dims, s, t)
    THEN LET raw == StepQuality(variant, r.dims, r.quality, s)
         IN Reencode(r, Clamp(variant, raw), raw, r.phase)
    ELSE Verdict(r, FinalSize(variant, s))

\* part_001: the decreasing loop, then the increasing loop with its break
SearchStepExif(r, s, t) ==
    LET breaks == r.phase = "inc" /\ (s >= P1_MIN_SIZE \/ r.quality = 100)
        dec == r.phase = "dec" /\ DecCond(r.dims, s, r.quality, t)
        inc == ~breaks /\ IncCond(r.dims, s, r.quality, t)
    IN CASE dec -> Reencode(r, r.quality - QualityStep(variant),
                            r.quality - QualityStep(variant), "dec")
         [] ~dec /\ inc -> Reencode(r, CapAtOne(r.quality + QualityStep(variant)),
                                    r.quality + QualityStep(variant), "inc")
         [] OTHER -> ReadBack(r)

\* The toBlob callback delivers a blob (null when the canvas has no pixels,
\* and reading null.size throws into the catch block).
ToBlobCallback ==
    /\ run.pc = "encode"
    /\ IF ~HasPixels(variant, run.dims)
       THEN Catch(run)
       ELSE \E s \in Encode(run.src, run.quality) :
              LET first == run.blob = NoBlob
                  t == IF first THEN 0 ELSE run.tries + 1
                  r == [run EXCEPT !.blob = s, !.tries = t,
                                   !.noProgress = (~first /\ run.clamped /\ s = run.blob)]
              IN IF variant = "p1" THEN SearchStepExif(r, s, t)
                                   ELSE SearchStep(r, s, t)
    /\ NoSave
    /\ UNCHANGED <<variant, uiVars>>

\* part_001: FileReader.onloadend; the EXIF segment is inserted and the new
\* blob is judged.
ReaderOnloadend ==
    /\ run.pc = "read"
    /\ Verdict(run, FinalSize(variant, run.blob))
    /\ NoSave
    /\ UNCHANGED <<variant, uiVars>>

(***************************************************************************)
(* Buttons                                                                 *)
(***************************************************************************)
SetMode ==
    /\ \E m \in Modes : mode' = m
    /\ UNCHANGED <<variant, imageSrc, signatureSrc, resizedImage,
                   resizedSignature, imageError, signatureError, loading,
                   showCropper, tempImage, croppedAreaPixels, cropRuns, run>>
    /\ NoSave

\* Mutant: the resize button stays enabled while loading
handleResizeWhileLoading ==
    /\ \E t \in Modes :
         /\ Src(t).present
         /\ variant \in {"app", "p0"} => mode = t
         /\ ResizeAndCompress(Src(t), Dimensions(variant, t), t)
    /\ NoSave
    /\ UNCHANGED <<variant, uiVars>>

\* The resize button is disabled while loading.  App.js and part_000 go
\* through handleResize, which picks the preset of the current mode;
\* part_001 has one button per preset.
handleResize ==
    /\ ~loading
    /\ \E t \in Modes :
         /\ Src(t).present
         /\ variant \in {"app", "p0"} => mode = t
         /\ ResizeAndCompress(Src(t), Dimensions(variant, t), t)
    /\ NoSave
    /\ UNCHANGED <<variant, uiVars>>

(***************************************************************************)
(* The quality search on given sources                                     *)
(***************************************************************************)
SearchSources == {Img(TRUE, "any"), Img(FALSE, "any")}

InitSearch ==
    /\ variant \in Variants
    /\ mode = "image"
    /\ imageSrc \in SearchSources
    /\ signatureSrc \in SearchSources
    /\ resizedImage = NoResult
    /\ resizedSignature = NoResult
    /\ imageError = NoError
    /\ signatureError = NoError
    /\ loading = FALSE
    /\ showCropper = FALSE
    /\ tempImage = NoImage
    /\ croppedAreaPixels = FALSE
    /\ cropRuns = {}
    /\ run = IdleRun
    /\ saved = NoFile

NextSearch ==
    \/ SetMode
    \/ handleResize
    \/ ImgOnload
    \/ ImgOnerror
    \/ ToBlobCallback
    \/ ReaderOnloadend

SpecSearch == InitSearch /\ [][NextSearch]_vars


(***************************************************************************)
(* The quality search against encoders that are functions of the quality   *)
(***************************************************************************)
FixedSources == {Img(TRUE, p) : p \in FunctionProfiles}

InitFixed ==
    /\ variant \in Variants
    /\ mode = "image"
    /\ imageSrc \in FixedSources
    /\ signatureSrc \in FixedSources
    /\ resizedImage = NoResult
    /\ resizedSignature = NoResult
    /\ imageError = NoError
    /\ signatureError = NoError
    /\ loading = FALSE
    /\ showCropper = FALSE
    /\ tempImage = NoImage
    /\ croppedAreaPixels = FALSE
    /\ cropRuns = {}
    /\ run = IdleRun
    /\ saved = NoFile

NextFixed ==
    \/ SetMode
    \/ handleResize
    \/ ImgOnload
    \/ ToBlobCallback
    \/ ReaderOnloadend

SpecFixed == InitFixed /\ [][NextFixed]_vars


(***************************************************************************)
(* Capture, upload and crop                                                *)
(***************************************************************************)
\* What a capture or an upload can hand over: a decodable picture (of one
\* of two kinds: one no quality brings under 50 KB, one of exactly 20 KB),
\* a file that is no picture, or null (getScreenshot before the camera is on).
Pictures == {Img(TRUE, "big"), Img(TRUE, "mid")}
BadFile == Img(FALSE, "none")

\* A call of handleCropConfirm whose promise will never settle (its captured
\* values are never read again)
HungCrop == [pc |-> "hung", mode |-> "image", area |-> FALSE, img |-> NoImage]

handleAfterCaptureOrUpload(src) ==
    /\ tempImage' = src
    /\ showCropper' = TRUE

capture ==
    /\ \E src \in Pictures \cup {NoImage} : handleAfterCaptureOrUpload(src)
    /\ UNCHANGED <<variant, mode, imageSrc, signatureSrc, resizedImage,
                   resizedSignature, imageError, signatureError, loading,
                   croppedAreaPixels, cropRuns, run>>
    /\ NoSave

\* reader.onload of handleFileUpload
handleFileUpload ==
    /\ \E src \in Pictures \cup {BadFile} : handleAfterCaptureOrUpload(src)
    /\ UNCHANGED <<variant, mode, imageSrc, signatureSrc, resizedImage,
                   resizedSignature, imageError, signatureError, loading,
                   croppedAreaPixels, cropRuns, run>>
    /\ NoSave

\* The Cropper reports a crop rectangle once its picture is loaded
onCropComplete ==
    /\ showCropper
    /\ tempImage.present /\ tempImage.decodable
    /\ croppedAreaPixels' = TRUE
    /\ UNCHANGED <<variant, mode, imageSrc, signatureSrc, resizedImage,
                   resizedSignature, imageError, signatureError, loading,
                   showCropper, tempImage, cropRuns, run>>
    /\ NoSave

\* A call of handleCropConfirm waiting for its picture.  Which mode and
\* rectangle it captured is kept for a picture that can load: the call reads
\* them only after the load.
CropCall(m, area, img) ==
    IF img.present /\ img.decodable
    THEN [pc |-> "load", mode |-> m, area |-> area, img |-> img]
    ELSE [pc |-> "load", mode |-> "image", area |-> FALSE, img |-> BadFile]

\* Click on "Confirm Crop": the handler reads mode, tempImage and
\* croppedAreaPixels of its render and waits for the picture in getCroppedImg
\* (image.src = null names the URL "null", which is no picture).
handleCropConfirm ==
    /\ showCropper
    /\ Cardinality({c \in cropRuns : c.pc = "load"}) < MaxCropRuns
    /\ cropRuns' = cropRuns \cup {CropCall(mode, croppedAreaPixels, tempImage)}
    /\ UNCHANGED <<variant, mode, imageSrc, signatureSrc, resizedImage,
                   resizedSignature, imageError, signatureError, loading,
                   showCropper, tempImage, croppedAreaPixels, run>>
    /\ NoSave

\* The picture of getCroppedImg fires "error" (null and non-pictures do):
\* like in resizeAndCompress, the awaited promise never settles.
CropImgOnerror ==
    \E c \in cropRuns :
      /\ c.pc = "load"
      /\ ~c.img.decodable
      /\ cropRuns' = (cropRuns \ {c}) \cup {HungCrop}
      /\ UNCHANGED <<variant, mode, imageSrc, signatureSrc, resizedImage,
                     resizedSignature, imageError, signatureError, loading,
                     showCropper, tempImage, croppedAreaPixels, run>>
      /\ NoSave

\* What handleCropConfirm stores when getCroppedImg returns for mode m
CropStore(m, src) ==
    /\ showCropper' = FALSE
    /\ tempImage' = NoImage
    /\ imageSrc' = IF m = "image" THEN src ELSE imageSrc
    /\ signatureSrc' = IF m = "signature" THEN src ELSE signatureSrc
    /\ resizedImage' = IF m = "image" THEN NoResult ELSE resizedImage
    /\ resizedSignature' = IF m = "signature" THEN NoResult ELSE resizedSignature
    /\ imageError' = IF m = "image" THEN NoError ELSE imageError
    /\ signatureError' = IF m = "signature" THEN NoError ELSE signatureError

\* cropPixels.x of a null rectangle throws: App.js catches it and sets the
\* photo's error, part_000 has no catch and the rejection changes nothing.
CropThrow(v) ==
    /\ imageError' = IF v = "app" THEN CropError ELSE imageError
    /\ UNCHANGED <<showCropper, tempImage, imageSrc, signatureSrc, resizedImage,
                   resizedSignature, signatureError>>

\* The picture of getCroppedImg loads and handleCropConfirm resumes.  (The
\* toBlob of App.js's getCroppedImg is a second await whose continuation
\* reads nothing but the values of the first: both are one step here.)
CropImgOnload ==
    \E c \in cropRuns :
      /\ c.pc = "load"
      /\ c.img.decodable
      /\ cropRuns' = cropRuns \ {c}
      /\ IF c.area THEN CropStore(c.mode, Img(TRUE, c.img.profile))
                   ELSE CropThrow(variant)
      /\ UNCHANGED <<variant, mode, loading, croppedAreaPixels, run>>
      /\ NoSave

handleCropCancel ==
    /\ showCropper
    /\ showCropper' = FALSE
    /\ tempImage' = NoImage
    /\ UNCHANGED <<variant, mode, imageSrc, signatureSrc, resizedImage,
                   resizedSignature, imageError, signatureError, loading,
                   croppedAreaPixels, cropRuns, run>>
    /\ NoSave

\* Mutant: the handler saves the photo whenever there is one, whatever the
\* mode
handleDownloadPhotoFirst ==
    /\ ~loading
    /\ IF variant = "app" THEN Resized(mode).present
                          ELSE resizedImage.present \/ resizedSignature.present
    /\ saved' = CASE resizedImage.present ->
                        [name |-> "photo.jpg", size |-> resizedImage.size]
                  [] resizedSignature.present ->
                        [name |-> "signature.jpg", size |-> resizedSignature.size]
                  [] OTHER -> NoFile
    /\ UNCHANGED <<variant, mode, imageSrc, signatureSrc, resizedImage,
                   resizedSignature, imageError, signatureError, loading,
                   showCropper, tempImage, croppedAreaPixels, cropRuns, run>>

\* The download button is disabled while loading and while there is no
\* result (App.js: of the current mode; part_000: of either mode).
handleDownload ==
    /\ ~loading
    /\ IF variant = "app" THEN Resized(mode).present
                          ELSE resizedImage.present \/ resizedSignature.present
    /\ saved' = CASE mode = "image" /\ resizedImage.present ->
                        [name |-> "photo.jpg", size |-> resizedImage.size]
                  [] mode = "signature" /\ resizedSignature.present ->
                        [name |-> "signature.jpg", size |-> resizedSignature.size]
                  [] OTHER -> NoFile
    /\ UNCHANGED <<variant, mode, imageSrc, signatureSrc, resizedImage,
                   resizedSignature, imageError, signatureError, loading,
                   showCropper, tempImage, croppedAreaPixels, cropRuns, run>>

(***************************************************************************)
(* The component from its construction (App.js and part_000; part_001      *)
(* renders its crop and resize buttons only once a source exists, and      *)
(* nothing but those buttons creates one)                                  *)
(***************************************************************************)
Init ==
    /\ variant \in {"app", "p0"}
    /\ mode = "image"
    /\ imageSrc = NoImage
    /\ signatureSrc = NoImage
    /\ resizedImage = NoResult
    /\ resizedSignature = NoResult
    /\ imageError = NoError
    /\ signatureError = NoError
    /\ loading = FALSE
    /\ showCropper = FALSE
    /\ tempImage = NoImage
    /\ croppedAreaPixels = FALSE
    /\ cropRuns = {}
    /\ run = IdleRun
    /\ saved = NoFile

Next ==
    \/ SetMode
    \/ capture
    \/ handleFileUpload
    \/ onCropComplete
    \/ handleCropConfirm
    \/ CropImgOnload
    \/ CropImgOnerror
    \/ handleCropCancel
    \/ handleResize
    \/ ImgOnload
    \/ ToBlobCallback
    \/ handleDownload

Spec == Init /\ [][Next]_vars


(***************************************************************************)
(* resizeAndCompress called with any target spec                           *)
(***************************************************************************)
\* A spec is invalid when a target dimension or maxBytes is not positive
InvalidSpec(dims) == dims.width <= 0 \/ dims.height <= 0 \/ dims.maxSize <= 0

AnySpecs(v) ==
    {IMAGE_DIMENSIONS(v),
     [IMAGE_DIMENSIONS(v) EXCEPT !.maxSize = 0 - 1],
     [IMAGE_DIMENSIONS(v) EXCEPT !.maxSize = 0],
     [IMAGE_DIMENSIONS(v) EXCEPT !.width = 0],
     [SIGNATURE_DIMENSIONS(v) EXCEPT !.height = 0]}

InitContract ==
    /\ variant \in Variants
    /\ mode = "image"
    /\ imageSrc = NoImage
    /\ signatureSrc = NoImage
    /\ resizedImage = NoResult
    /\ resizedSignature = NoResult
    /\ imageError = NoError
    /\ signatureError = NoError
    /\ loading = FALSE
    /\ showCropper = FALSE
    /\ tempImage = NoImage
    /\ croppedAreaPixels = FALSE
    /\ cropRuns = {}
    /\ run = IdleRun
    /\ saved = NoFile

CallWithSpec ==
    /\ ~loading
    /\ \E dims \in AnySpecs(variant) :
         ResizeAndCompress(Img(TRUE, "any"), dims, "image")
    /\ NoSave
    /\ UNCHANGED <<variant, uiVars>>

NextContract ==
    \/ CallWithSpec
    \/ ImgOnload
    \/ ToBlobCallback
    \/ ReaderOnloadend

SpecContract == InitContract /\ [][NextContract]_vars


(***************************************************************************)
(* Properties                                                              *)
(***************************************************************************)
Finished == run.pc = "done"
Succeeded == Finished /\ run.outcome = "success"
Violated == Finished /\ run.outcome = "violation"

\* C1: a run that ends in success has stored a result, with no error set,
\* whose byte size lies between the preset's minSize (0 when the preset has
\* none) and the preset's maxSize.
C1_SuccessWithinWindow ==
    Succeeded =>
        /\ Resized(run.target).present
        /\ Error(run.target).kind = "none"
        /\ run.dims.minSize <= Resized(run.target).size
        /\ Resized(run.target).size <= run.dims.maxSize

\* A run succeeded after at least one re-encode
C1_Witness == Succeeded /\ run.tries > 0 /\ Resized(run.target).present

\* C2: a size-violation message and a stored result never coexist for a
\* preset, and a finished run has produced exactly one of the two for its
\* preset.
C2_OutcomesExclusive ==
    /\ \A t \in Modes : ~(Error(t).kind = "size" /\ Resized(t).present)
    /\ Finished =>
          (Error(run.target).kind = "size") # Resized(run.target).present

\* A run ended in a size violation while the other preset holds a result
C2_Witness ==
    /\ Violated
    /\ Error(run.target).kind = "size"
    /\ \E t \in Modes : t # run.target /\ Resized(t).present

\* C3: every quality handed to the encoder lies in [0.5, 1.0] in App.js and
\* in [0.1, 1.0] in the other two versions.
C3_QualityInRange ==
    run.pc = "encode" =>
        /\ run.quality <= 100
        /\ variant = "app" => run.quality >= 50
        /\ variant # "app" => run.quality >= 10

\* An encode is requested at a quality the clamp produced
C3_Witness == run.pc = "encode" /\ run.clamped /\ run.quality = 50

\* C4: a run re-encodes at most N times after its first encode (N = 10 in
\* App.js, 20 in the other versions, the two loops of part_001 sharing the
\* budget): tries never exceeds N and at most N + 1 encodes are requested.
C4_TryBudget ==
    LET N == IF variant = "app" THEN 10 ELSE 20
    IN /\ run.tries <= N
       /\ run.encodes <= N + 1
       /\ run.pc \in {"encode", "read", "done"} /\ run.encodes > 0
             => run.encodes - 1 <= N

\* A run of part_001 used up the shared budget in its increasing loop
C4_Witness ==
    /\ variant = "p1"
    /\ run.phase = "inc"
    /\ run.tries = 20
    /\ run.encodes = 21

\* C5 (as claimed): a call with an invalid spec has requested no encode and
\* has, from its first moment on, ended with an InvalidSpec error.
C5_InvalidSpecFailsFast ==
    (run.pc # "idle" /\ InvalidSpec(run.dims)) =>
        /\ run.encodes = 0
        /\ Finished
        /\ Error(run.target).kind = "invalid"

\* C6 (as claimed): the message of a size violation carries the size of the
\* last encode and both bounds of the preset the run was given.
C6_ViolationCarriesSizeAndSpec ==
    Violated =>
        LET e == Error(run.target)
        IN /\ e.kind = "size"
           /\ e.sizeKB = RoundKB(run.blob)
           /\ e.hasMax /\ e.maxKB = RoundKB(run.dims.maxSize)
           /\ run.dims.minSize # 0 =>
                 (e.hasMin /\ e.minKB = RoundKB(run.dims.minSize))

\* C7 (as claimed): a call whose picture failed to decode has ended with a
\* reported error, loading cleared and no result stored; likewise the crop.
C7_DecodeFailureReported ==
    /\ run.pc = "hung" =>
          /\ ~loading
          /\ Error(run.target).kind = "failed"
          /\ ~Resized(run.target).present
    /\ HungCrop \in cropRuns =>
          (imageError.kind = "crop" \/ signatureError.kind = "crop")

\* C8 (as claimed): once an encode at a clamped quality has repeated the
\* size of the encode before it, no further encode is requested.
C8_EarlyExitAtClamp == ~(run.pc = "encode" /\ run.noProgress)

\* C8 (amended): App.js and part_000 have no early exit.  Their search ends
\* only with the size inside the window or with the budget used up, and an
\* encode at a clamped quality that repeats the previous size outside the
\* window is followed by one more encode at the same clamped quality while
\* tries remain.
C8_NoEarlyExit ==
    variant \in {"app", "p0"} =>
        LET N == IF variant = "app" THEN 10 ELSE 20
            lo == IF variant = "app" THEN run.dims.minSize ELSE 10240
            out == run.blob > run.dims.maxSize \/ run.blob < lo
        IN /\ (Finished /\ run.outcome \in {"success", "violation"})
                 => (~out \/ run.tries = N)
           /\ (run.noProgress /\ out /\ run.tries < N)
                 => /\ run.pc = "encode"
                    /\ run.quality \in {QualityFloor(variant), 100}

\* The search stalled at the floor and encodes again
C8_Witness ==
    /\ variant \in {"app", "p0"}
    /\ run.pc = "encode"
    /\ run.noProgress
    /\ run.quality = QualityFloor(variant)
    /\ run.tries < MaxTries(variant)

\* C9: the blob that comes back decides the next quality: above maxSize the
\* quality goes down one step (not below the floor); else, below the lower
\* bound, it goes up one step (not above 1.0); it never rises for a blob
\* above maxSize and never falls for a blob below the lower bound.
C9_StepFollowsSize ==
    [][(run.pc = "encode" /\ run'.pc = "encode"
           /\ run'.encodes = run.encodes + 1) =>
          LET s == run'.blob
              q == run.quality
              step == QualityStep(variant)
              down == IF q - step < QualityFloor(variant)
                      THEN QualityFloor(variant) ELSE q - step
              up == IF q + step > 100 THEN 100 ELSE q + step
              lo == LowerBound(variant, run.dims)
          IN /\ s > run.dims.maxSize => run'.quality = down
             /\ (s <= run.dims.maxSize /\ s < lo) => run'.quality = up
             /\ s > run.dims.maxSize => run'.quality <= q
             /\ s < lo => run'.quality >= q]_vars

\* A small blob came back and the next encode runs at a higher quality
C9_Witness ==
    /\ run.pc = "encode"
    /\ run.blob # NoBlob
    /\ run.blob < LowerBound(variant, run.dims)
    /\ run.blob < run.dims.maxSize
    /\ run.quality > QualityStart(variant)

\* C10 (as claimed): in every version a photo run succeeds exactly when its
\* final size is in [20480, 51200] and a signature run exactly when its
\* final size is in [0, 20480].
C10_PresetWindows ==
    (Finished /\ run.outcome \in {"success", "violation"}) =>
        IF run.target = "image"
        THEN Succeeded <=> (20480 <= run.final /\ run.final <= 51200)
        ELSE Succeeded <=> (0 <= run.final /\ run.final <= 20480)

\* C11 (as claimed): when every encode is larger than maxSize, the finished
\* run is a size violation with no stored result, reached with all N tries
\* used and the quality lowered to the floor.
C11_BudgetUsedAtFloor ==
    (run.src.profile = "over" /\ Finished) =>
        /\ Violated
        /\ ~Resized(run.target).present
        /\ run.tries = (IF variant = "app" THEN 10 ELSE 20)
        /\ run.quality = (IF variant = "app" THEN 50 ELSE 10)

\* C11 (amended): when every encode is larger than maxSize, the k-th
\* re-encode runs at the start quality lowered by k steps and not below the
\* floor, the search ends only when all N tries are used (N + 1 encodes), and
\* the run then is a size violation with no stored result.  The last quality
\* is the floor in App.js (0.5) and part_000 (0.1); part_001 uses up its 20
\* tries at 0.52, far above its floor of 0.1.
C11_BudgetUsedThenViolation ==
    run.src.profile = "over" =>
        LET N == IF variant = "app" THEN 10 ELSE 20
            start == IF variant = "p1" THEN 92 ELSE 90
            step == IF variant = "p1" THEN 2 ELSE 5
            floor == IF variant = "app" THEN 50 ELSE 10
            lowered(k) == IF start - k * step < floor THEN floor
                                                      ELSE start - k * step
        IN /\ run.pc = "encode" => run.quality = lowered(run.encodes - 1)
           /\ run.pc \in {"read", "done"} =>
                 /\ run.tries = N
                 /\ run.encodes = N + 1
                 /\ run.quality = lowered(N)
                 /\ run.quality = (CASE variant = "app" -> 50
                                     [] variant = "p0" -> 10
                                     [] OTHER -> 52)
           /\ Finished =>
                 /\ Violated
                 /\ Error(run.target).kind = "size"
                 /\ ~Resized(run.target).present

\* part_001 ended a run on an always-too-large source above its floor
C11_Witness ==
    /\ variant = "p1"
    /\ run.src.profile = "over"
    /\ Violated
    /\ run.tries = 20
    /\ run.quality = 52

C13_SameCallSameOutcome ==
    (Finished /\ run.prev.outcome # "none") =>
        /\ run.outcome = run.prev.outcome
        /\ run.trail = run.prev.trail
        /\ Succeeded => run.final = run.prev.final

\* A second call on the same source succeeded after several re-encodes
C13_Witness ==
    /\ Succeeded
    /\ run.prev.outcome = "success"
    /\ Len(run.trail) > 2
    /\ run.trail = run.prev.trail

\* C14: the canvas handed to toBlob has the target pixel size of the preset:
\* in App.js 138 x 177 for the photo and 131 x 56 for the signature (never
\* the doubled size of the canvas drawn first); in part_000 and part_001,
\* which convert at 118.11 px/cm, 413 x 531 and 413 x 177.
C14_CanvasIsTargetSize ==
    run.pc \in {"encode", "read", "done"} /\ run.encodes > 0 =>
        run.canvas =
            CASE variant = "app" /\ run.target = "image" -> [w |-> 138, h |-> 177]
              [] variant = "app" /\ run.target = "signature" -> [w |-> 131, h |-> 56]
              [] variant # "app" /\ run.target = "image" -> [w |-> 413, h |-> 531]
              [] OTHER -> [w |-> 413, h |-> 177]

\* A signature run of App.js succeeded on its 131 x 56 canvas
C14_Witness ==
    /\ variant = "app"
    /\ run.target = "signature"
    /\ Succeeded
    /\ run.canvas = [w |-> 131, h |-> 56]

\* C15: a file is saved only when the current mode holds a resized result;
\* the file is that result, named photo.jpg in image mode and signature.jpg
\* in signature mode, and its size passed the size check of that mode's
\* preset.
C15_DownloadSavesCurrentResult ==
    saved # NoFile =>
        /\ ~loading
        /\ Resized(mode).present
        /\ saved.size = Resized(mode).size
        /\ saved.name = (IF mode = "image" THEN "photo.jpg" ELSE "signature.jpg")
        /\ saved.size <= (IF mode = "image" THEN 51200 ELSE 20480)
        /\ saved.size >= (CASE variant = "p0" -> 10240
                            [] variant = "app" /\ mode = "image" -> 20480
                            [] OTHER -> 0)

\* The signature is downloaded while a resized photo exists as well
C15_Witness ==
    /\ saved # NoFile
    /\ saved.name = "signature.jpg"
    /\ mode = "signature"
    /\ resizedImage.present
    /\ resizedSignature.present

\* C16 (as claimed): the result, or the size error, that a finished call
\* has left for its preset was made from that preset's current source: no
\* call stores anything once a confirmed crop has put another picture in
\* place of the one it was started on.
C16_NoStaleStore ==
    (/\ Finished
     /\ \/ Resized(run.target).present
        \/ Error(run.target).kind = "size") =>
        Src(run.target) = run.src

\* C17: loading is true exactly while a call is in flight, and a call starts
\* only when loading is false and no call is in flight, whatever the mode.
C17_OneRunInFlight ==
    /\ [](loading <=> InFlight(run))
    /\ [][(run'.pc = "load" /\ run.pc # "load")
             => (~loading /\ ~InFlight(run))]_vars

\* The mode was switched away from the preset of the call in flight
C17_Witness ==
    /\ loading
    /\ run.pc = "encode"
    /\ run.tries > 0
    /\ mode # run.target

\* C18 (as claimed): in part_001 a run whose loops ended with the blob
\* inside [minSize, maxSize] has reported success and stored the result.
C18_InsideWindowSucceeds ==
    (/\ variant = "p1"
     /\ Finished
     /\ run.outcome \in {"success", "violation"}
     /\ P1_MIN_SIZE <= run.blob
     /\ run.blob <= run.dims.maxSize) =>
        /\ Succeeded
        /\ Resized(run.target).present

\* C19 (as claimed): the step that resumes handleCropConfirm, stored crop or
\* failure, leaves the source, result and error of the mode it was not
\* clicked in unchanged; handleCropCancel leaves the sources, results and
\* errors of both modes unchanged.
C19_CropTouchesCurrentModeOnly ==
    [][/\ \A c \in cropRuns :
            (c.pc = "load" /\ cropRuns' = cropRuns \ {c}) =>
               IF c.mode = "image"
               THEN /\ signatureSrc' = signatureSrc
                    /\ resizedSignature' = resizedSignature
                    /\ signatureError' = signatureError
               ELSE /\ imageSrc' = imageSrc
                    /\ resizedImage' = resizedImage
                    /\ imageError' = imageError
       /\ (showCropper /\ ~showCropper' /\ cropRuns' = cropRuns) =>
              /\ imageSrc' = imageSrc /\ signatureSrc' = signatureSrc
              /\ resizedImage' = resizedImage
              /\ resizedSignature' = resizedSignature
              /\ imageError' = imageError
              /\ signatureError' = signatureError]_vars

\* C20 (as claimed): the crop dialog is shown exactly when there is a
\* pending image, and no call of handleCropConfirm runs with a null crop
\* rectangle.
C20_CropperIffPendingImage ==
    /\ showCropper <=> tempImage.present
    /\ \A c \in cropRuns : (c.pc = "load" /\ c.img.decodable) => c.area

====
